---- MODULE Spec2Model ----
(***************************************************************************)
(* Model of chore_queue.py: the Todoist chore queue promoter.              *)
(*                                                                         *)
(* Text (project names, task contents, label names, timestamps, paths) is  *)
(* a tuple of one-character strings, so that strip(), lower(), split('/')  *)
(* and the regular expression of parse_order_key are computed character by *)
(* character.                                                              *)
(***************************************************************************)
EXTENDS Integers, Sequences, FiniteSets, TLC

VARIABLES
    projects,   \* the service's project listing (GET /projects), in listing order
    rtasks,     \* the service's active tasks (GET /tasks), in listing order
    rlabels,    \* the service's labels (GET /labels), in listing order
    replies,    \* the outcomes of _req that the service of this run can cause
    QUEUES,     \* the configured queues, chore_queue.py:38
    st,         \* st[r]: the local state of run r of main()
    log,        \* every remote call issued so far, in order, with its outcome
    fin,        \* the argument of a function studied alone (SpecOrder, SpecResolve)
    fout        \* its result

vars == <<projects, rtasks, rlabels, replies, QUEUES, st, log, fin, fout>>

----------------------------------------------------------------------------
(* Bounds *)

MaxSortLen == 3     \* longest task list handed to sorted() in SpecOrder
MaxTasks == 3       \* most tasks of the queue's project in Spec
MaxQueues == 2      \* most configured queues in SpecMain
MaxMainTasks == 2   \* most tasks of the queue's project in SpecMain
MaxContentLen == 3  \* longest task content handed to parse_order_key in SpecKey
MaxConcTasks == 2   \* most tasks of the queue's project in SpecTwo
MaxProjects == 4    \* most projects in the listing in SpecResolve

----------------------------------------------------------------------------
(* Characters and strings *)

Digits == <<"0", "1", "2", "3", "4", "5", "6", "7", "8", "9">>
UpperCase == <<"A", "B", "C", "D", "E", "F", "G", "H", "I", "J", "K", "L", "M",
               "N", "O", "P", "Q", "R", "S", "T", "U", "V", "W", "X", "Y", "Z">>
LowerCase == <<"a", "b", "c", "d", "e", "f", "g", "h", "i", "j", "k", "l", "m",
               "n", "o", "p", "q", "r", "s", "t", "u", "v", "w", "x", "y", "z">>

\* the other visible characters of ASCII, in code point order: 33 to 47, 58
\* to 64, 91 to 95 and 123 to 126 (the grave accent, 96, cannot be written
\* in a string of this language and is left out)
Marks33 == <<"!", "\"", "#", "$", "%", "&", "'", "(", ")", "*", "+", ",", "-", ".", "/">>
Marks58 == <<":", ";", "<", "=", ">", "?", "@">>
Marks91 == <<"[", "\\", "]", "^", "_">>
Marks123 == <<"{", "|", "}", "~">>

\* the whitespace of Python up to code point 255, with the code points: tab,
\* line feed, vertical tab, form feed, carriage return, the four separators
\* 28 to 31, the space, the next-line control 133 and the no-break space 160
Spaces == <<"\t", "\n", "", "\f", "\r", "", "", "", "", " ", "", " ">>
SpaceCodes == <<9, 10, 11, 12, 13, 28, 29, 30, 31, 32, 133, 160>>

\* the characters of code points 161 to 255, in code point order
Latin1 == <<"¡", "¢", "£", "¤", "¥", "¦", "§", "¨", "©", "ª", "«", "¬",
           "­", "®", "¯", "°", "±", "²", "³", "´", "µ", "¶", "·", "¸",
           "¹", "º", "»", "¼", "½", "¾", "¿", "À", "Á", "Â", "Ã", "Ä",
           "Å", "Æ", "Ç", "È", "É", "Ê", "Ë", "Ì", "Í", "Î", "Ï", "Ð",
           "Ñ", "Ò", "Ó", "Ô", "Õ", "Ö", "×", "Ø", "Ù", "Ú", "Û", "Ü",
           "Ý", "Þ", "ß", "à", "á", "â", "ã", "ä", "å", "æ", "ç", "è",
           "é", "ê", "ë", "ì", "í", "î", "ï", "ð", "ñ", "ò", "ó", "ô",
           "õ", "ö", "÷", "ø", "ù", "ú", "û", "ü", "ý", "þ", "ÿ">>

\* the capital letters among them, and the letters str.lower() gives for
\* them, each 32 code points higher
Latin1Upper == <<"À", "Á", "Â", "Ã", "Ä", "Å", "Æ", "Ç", "È", "É", "Ê", "Ë",
                "Ì", "Í", "Î", "Ï", "Ð", "Ñ", "Ò", "Ó", "Ô", "Õ", "Ö", "Ø",
                "Ù", "Ú", "Û", "Ü", "Ý", "Þ">>
Latin1Lower == <<"à", "á", "â", "ã", "ä", "å", "æ", "ç", "è", "é", "ê", "ë",
                "ì", "í", "î", "ï", "ð", "ñ", "ò", "ó", "ô", "õ", "ö", "ø",
                "ù", "ú", "û", "ü", "ý", "þ">>

\* the other characters among them that \w holds for: the letters without a
\* capital or small partner and the numerics (superscripts and fractions)
Latin1OtherWord == <<"ª", "²", "³", "µ", "¹", "º", "¼", "½", "¾", "ß", "ÿ">>

Range(s) == {s[i] : i \in DOMAIN s}

SpaceSet == Range(Spaces)
DigitSet == Range(Digits)
UpperSet == Range(UpperCase)
Latin1UpperSet == Range(Latin1Upper)
WordSet ==
    Range(Digits) \cup Range(UpperCase) \cup Range(LowerCase) \cup {"_"}
    \cup Range(Latin1Upper) \cup Range(Latin1Lower) \cup Range(Latin1OtherWord)

IndexOf(c, s) == CHOOSE i \in DOMAIN s : s[i] = c

IsDigit(c) == c \in DigitSet

DigitVal(c) == IndexOf(c, Digits) - 1

\* \s of the re module and the characters str.strip() removes: the same set
IsSpace(c) == c \in SpaceSet

\* \w of the re module on a str pattern: a letter or a numeric character of
\* Unicode, or the underscore
IsWord(c) == c \in WordSet

\* ord(): the code point, which is what the comparison of strings goes by.
\* Text is made of the characters listed here: ASCII from 28 to 126 without
\* the grave accent, the controls 9 to 13, the space 133 and 160 to 255.
Alphabet ==
    Range(Digits) \cup Range(UpperCase) \cup Range(LowerCase) \cup Range(Marks33)
    \cup Range(Marks58) \cup Range(Marks91) \cup Range(Marks123) \cup Range(Spaces)
    \cup Range(Latin1)

CodePoint ==
    [c \in Alphabet |->
        CASE IsDigit(c) -> 48 + DigitVal(c)
          [] c \in Range(UpperCase) -> 64 + IndexOf(c, UpperCase)
          [] c \in Range(LowerCase) -> 96 + IndexOf(c, LowerCase)
          [] c \in Range(Marks33) -> 32 + IndexOf(c, Marks33)
          [] c \in Range(Marks58) -> 57 + IndexOf(c, Marks58)
          [] c \in Range(Marks91) -> 90 + IndexOf(c, Marks91)
          [] c \in Range(Marks123) -> 122 + IndexOf(c, Marks123)
          [] c \in Range(Spaces) -> SpaceCodes[IndexOf(c, Spaces)]
          [] c \in Range(Latin1) -> 160 + IndexOf(c, Latin1)]

Ord(c) == CodePoint[c]

LowerChar(c) ==
    IF c \in UpperSet THEN LowerCase[IndexOf(c, UpperCase)]
    ELSE IF c \in Latin1UpperSet THEN Latin1Lower[IndexOf(c, Latin1Upper)]
    ELSE c

\* str.lower()
Lower(s) == [i \in DOMAIN s |-> LowerChar(s[i])]

RECURSIVE LStrip(_)
\* str.lstrip()
LStrip(s) == IF s # <<>> /\ IsSpace(Head(s)) THEN LStrip(Tail(s)) ELSE s

RECURSIVE RStrip(_)
\* str.rstrip()
RStrip(s) == IF s # <<>> /\ IsSpace(s[Len(s)]) THEN RStrip(SubSeq(s, 1, Len(s) - 1)) ELSE s

\* str.strip()
Strip(s) == RStrip(LStrip(s))

RECURSIVE StrLess(_, _)
\* s < t for Python strings: lexicographic by code point, a proper prefix first
StrLess(s, t) ==
    IF t = <<>> THEN FALSE
    ELSE IF s = <<>> THEN TRUE
    ELSE IF Ord(Head(s)) # Ord(Head(t)) THEN Ord(Head(s)) < Ord(Head(t))
    ELSE StrLess(Tail(s), Tail(t))

RECURSIVE SplitFrom(_, _, _)
\* str.split(sep): cur is the part being read
SplitFrom(s, sep, cur) ==
    IF s = <<>> THEN <<cur>>
    ELSE IF Head(s) = sep THEN <<cur>> \o SplitFrom(Tail(s), sep, <<>>)
    ELSE SplitFrom(Tail(s), sep, Append(cur, Head(s)))

Split(s, sep) == SplitFrom(s, sep, <<>>)

----------------------------------------------------------------------------
(* parse_order_key and sorted(), chore_queue.py:171-177 and 191 *)

BigPrefix == 1000000000   \* 10**9, chore_queue.py:175

RECURSIVE DigitRunLen(_)
\* the length of the longest run of digits that s starts with
DigitRunLen(s) == IF s # <<>> /\ IsDigit(Head(s)) THEN 1 + DigitRunLen(Tail(s)) ELSE 0

RECURSIVE IntOf(_)
\* int() of a string of digits
IntOf(s) == IF s = <<>> THEN 0 ELSE 10 * IntOf(SubSeq(s, 1, Len(s) - 1)) + DigitVal(s[Len(s)])

\* the pattern without its \b: any two digits or more
PrefixMatch_NoBoundary(content) ==
    LET body == LStrip(content)
        n == DigitRunLen(body)
    IN IF n >= 2 THEN SubSeq(body, 1, n) ELSE <<>>

\* re.match(r"^\s*(\d{2,})\b", content): group 1, or <<>> when there is no
\* match.  \d{2,} is greedy and a shorter run would end between two digits,
\* where \b cannot hold, so only the whole run can match; \b then holds at
\* the end of the content or before a character that is not \w.
PrefixMatch(content) ==
    LET body == LStrip(content)
        n == DigitRunLen(body)
    IN IF n >= 2 /\ (Len(body) = n \/ ~IsWord(body[n + 1]))
       THEN SubSeq(body, 1, n)
       ELSE <<>>

\* a key that looks at the due date: a task that has one sorts last
parse_order_key_DueLast(task) ==
    LET m == PrefixMatch(task.content)
    IN [prefix |-> IF task.due # "None" THEN BigPrefix + 1
                   ELSE IF m # <<>> THEN IntOf(m) ELSE BigPrefix,
        created |-> task.created_at]

parse_order_key(task) ==
    LET m == PrefixMatch(task.content)
    IN [prefix |-> IF m # <<>> THEN IntOf(m) ELSE BigPrefix,
        created |-> task.created_at]

\* the key cut down to the prefix
KeyLess_PrefixOnly(k1, k2) == k1.prefix < k2.prefix

\* k1 < k2 for the tuples (prefix, created)
KeyLess(k1, k2) ==
    \/ k1.prefix < k2.prefix
    \/ k1.prefix = k2.prefix /\ StrLess(k1.created, k2.created)

RECURSIVE InsertStable(_, _)
\* x goes behind every element whose key is not greater than its own
InsertStable(x, s) ==
    IF s = <<>> THEN <<x>>
    ELSE IF KeyLess(parse_order_key(x), parse_order_key(Head(s)))
         THEN <<x>> \o s
         ELSE <<Head(s)>> \o InsertStable(x, Tail(s))

RECURSIVE SortedFrom(_, _)
SortedFrom(s, acc) ==
    IF s = <<>> THEN acc ELSE SortedFrom(Tail(s), InsertStable(Head(s), acc))

\* sorted(tasks, key=parse_order_key): ascending and stable
tasks_sorted(tasks) == SortedFrom(tasks, <<>>)

----------------------------------------------------------------------------
(* The project path resolver, chore_queue.py:79-141 *)

NoId == 0     \* None as an identifier: a missing project, a missing parent_id

\* the index of the first TRUE of a tuple of test results, or 0: a for loop
\* that stops at its first hit
FirstIndex(hits) ==
    IF \E i \in DOMAIN hits : hits[i]
    THEN CHOOSE i \in DOMAIN hits : hits[i] /\ \A j \in 1..(i - 1) : ~hits[j]
    ELSE 0

\* p["name"].strip().lower() == text.lower()
NameIs(p, text) == Lower(Strip(p.name)) = Lower(text)

\* path_parts, line 95
path_parts(path) ==
    LET raw == Split(path, "/") IN [i \in DOMAIN raw |-> Strip(raw[i])]

\* children_map.get(id, []), lines 101-107 and 123: the identifiers of the
\* projects whose parent_id is id, in listing order
children_map(ps, id) ==
    LET kids == SelectSeq(ps, LAMBDA p : p.parent_id # NoId /\ p.parent_id = id)
    IN [i \in DOMAIN kids |-> kids[i].id]

\* project_map[id], line 102: a later project of the listing overwrites an
\* earlier one that has the same identifier
project_map(ps, id) ==
    ps[CHOOSE i \in DOMAIN ps :
          /\ ps[i].id = id
          /\ \A j \in DOMAIN ps : ps[j].id = id => j <= i]

\* line 112 without its first test: any project of the name is a candidate
root_candidates_AnyLevel(ps, parts) ==
    LET roots == SelectSeq(ps, LAMBDA p : NameIs(p, parts[1]))
    IN [i \in DOMAIN roots |-> roots[i].id]

\* root_candidates, lines 110-114
root_candidates(ps, parts) ==
    LET roots == SelectSeq(ps, LAMBDA p : p.parent_id = NoId /\ NameIs(p, parts[1]))
    IN [i \in DOMAIN roots |-> roots[i].id]

RECURSIVE Walk_Backtrack(_, _, _)
\* the break of line 130 left out and every matching child tried in turn
Walk_Backtrack(ps, current_id, parts) ==
    IF parts = <<>> THEN current_id
    ELSE LET child_ids == children_map(ps, current_id)
             ends == [i \in DOMAIN child_ids |->
                         IF NameIs(project_map(ps, child_ids[i]), Head(parts))
                         THEN Walk_Backtrack(ps, child_ids[i], Tail(parts))
                         ELSE NoId]
             k == FirstIndex([i \in DOMAIN ends |-> ends[i] # NoId])
         IN IF k = 0 THEN NoId ELSE ends[k]

RECURSIVE Walk(_, _, _)
\* lines 122-136 for one root candidate: the project the remaining parts
\* lead to from current_id, or NoId when a part has no matching child
Walk(ps, current_id, parts) ==
    IF parts = <<>> THEN current_id
    ELSE LET child_ids == children_map(ps, current_id)
             k == FirstIndex([i \in DOMAIN child_ids |->
                                NameIs(project_map(ps, child_ids[i]), Head(parts))])
         IN IF k = 0 THEN NoId ELSE Walk(ps, child_ids[k], Tail(parts))

RECURSIVE FirstWalk(_, _, _)
\* lines 117-141: the end of the first walk that completes
FirstWalk(ps, roots, parts) ==
    IF roots = <<>> THEN NoId
    ELSE LET end == Walk(ps, Head(roots), Tail(parts))
         IN IF end # NoId THEN end ELSE FirstWalk(ps, Tail(roots), parts)

_resolve_hierarchical_project(ps, path) ==
    LET parts == path_parts(path)
    IN FirstWalk(ps, root_candidates(ps, parts), parts)

\* lines 83-89 in the other order: the walk before the whole-name match
get_project_id_by_name_WalkFirst(ps, name) ==
    LET k == FirstIndex([i \in DOMAIN ps |->
                            Lower(Strip(ps[i].name)) = Lower(Strip(name))])
        walked == IF "/" \in Range(name) THEN _resolve_hierarchical_project(ps, name)
                  ELSE NoId
    IN IF walked # NoId THEN walked
       ELSE IF k # 0 THEN ps[k].id
       ELSE NoId

get_project_id_by_name(ps, name) ==
    LET k == FirstIndex([i \in DOMAIN ps |->
                            Lower(Strip(ps[i].name)) = Lower(Strip(name))])
    IN IF k # 0 THEN ps[k].id
       ELSE IF "/" \in Range(name) THEN _resolve_hierarchical_project(ps, name)
       ELSE NoId

----------------------------------------------------------------------------
(* The remote service as the client sees it, chore_queue.py:66-73, 144-149 *)

NoDue == "None"             \* a task's "due" field when it has no due date
ClearDue == "no due date"   \* the directive of line 206

\* what _req does with the service's answer, lines 68-73: it raises for a
\* status of 400 or more ("error"), returns the JSON of a reply that has
\* JSON ("json"), and returns None for any other reply below 400 ("none"),
\* a request the service has carried out all the same
Replies == {"error", "json", "none"}

\* one entry of the call log; ok says that _req did not raise, and reply is
\* what the caller got to read: the value update_task returns is dropped at
\* lines 199, 206 and 220, so that it is "unread" whether JSON or None
Call(r, op, task, due_string, labels, reply) ==
    [run |-> r, queue |-> st[r].qi, op |-> op, task |-> task,
     due_string |-> due_string, labels |-> labels,
     ok |-> reply # "error",
     reply |-> IF op = "update_task" /\ reply # "error" THEN "unread" ELSE reply]

\* GET /tasks?project_id=pid: the active tasks of one project, in listing order
list_tasks(pid) == SelectSeq(rtasks, LAMBDA t : t.project_id = pid)

\* POST /tasks/<id> with a due_string: the service parses the directive
DueWritten(ts, id, due_string) ==
    [i \in DOMAIN ts |->
        IF ts[i].id = id
        THEN [ts[i] EXCEPT !.due = IF due_string = "no due date" THEN NoDue ELSE due_string]
        ELSE ts[i]]

\* POST /tasks/<id> with labels: the label set is replaced
LabelsWritten(ts, id, labels) ==
    [i \in DOMAIN ts |-> IF ts[i].id = id THEN [ts[i] EXCEPT !.labels = labels] ELSE ts[i]]

\* POST /labels: the label the service creates; identifiers are fresh
created_label(name) ==
    [id |-> <<"8", Digits[Len(rlabels) + 1]>>, name |-> name]

----------------------------------------------------------------------------
(* main() and promote_queue(), chore_queue.py:179-245, one remote call a step *)

cfg(r) == QUEUES[st[r].qi]

head(r) == st[r].sorted[1]

\* a slice that starts one task late
rest_OffByOne(r) == SubSeq(st[r].sorted, 3, Len(st[r].sorted))

rest(r) == Tail(st[r].sorted)

\* the summary dict of promote_queue; head_id is bookkeeping for the
\* properties (the dict itself carries only the head's content)
Result(r, status, labeled) ==
    [project |-> cfg(r).project_name,
     status |-> status,
     promoted_task |-> IF status = "ok" THEN head(r).content ELSE <<>>,
     cleared_due_on |-> IF status = "ok" THEN st[r].cleared ELSE 0,
     labeled |-> labeled,
     head_id |-> IF status = "ok" THEN head(r).id ELSE NoId]

\* what main() prints for a queue whose promote_queue raised, line 245
ErrorLine(r) == Result(r, "error", FALSE)

\* the try of line 241 put around the loop: an exception ends the run
Finish_Abort(r, line) ==
    st' = [st EXCEPT ![r] = [@ EXCEPT !.out = Append(@, line),
                                      !.qi = @ + 1,
                                      !.pc = IF st[r].qi + 1 > Len(QUEUES)
                                                \/ line.status = "error"
                                             THEN "done" ELSE "start"]]

\* lines 240-245: the queue's outcome is printed and the loop goes on
Finish(r, line) ==
    st' = [st EXCEPT ![r] = [@ EXCEPT !.out = Append(@, line),
                                      !.qi = @ + 1,
                                      !.pc = IF st[r].qi + 1 > Len(QUEUES)
                                             THEN "done" ELSE "start"]]

Goto(r, pc) == st' = [st EXCEPT ![r] = [@ EXCEPT !.pc = pc]]

\* the test of line 183 left out
Resolve_NoCheck(r) ==
    /\ st[r].pc = "start"
    /\ \E reply \in replies :
        /\ log' = Append(log, Call(r, "list_projects", NoId, "", <<>>, reply))
        /\ IF reply # "json" THEN Finish(r, ErrorLine(r))
           ELSE LET pid == get_project_id_by_name(projects, cfg(r).project_name)
                IN st' = [st EXCEPT ![r] = [@ EXCEPT !.pid = pid, !.pc = "list_tasks"]]
    /\ UNCHANGED <<replies, projects, rtasks, rlabels, QUEUES, fin, fout>>

\* lines 181-184: list_projects and the resolver; a reply of None cannot be
\* iterated at line 83 and the TypeError ends the queue like a failure
Resolve(r) ==
    /\ st[r].pc = "start"
    /\ \E reply \in replies :
        /\ log' = Append(log, Call(r, "list_projects", NoId, "", <<>>, reply))
        /\ IF reply # "json" THEN Finish(r, ErrorLine(r))
           ELSE LET pid == get_project_id_by_name(projects, cfg(r).project_name)
                IN IF pid = NoId
                   THEN Finish(r, Result(r, "missing_project", FALSE))
                   ELSE st' = [st EXCEPT ![r] = [@ EXCEPT !.pid = pid,
                                                          !.pc = "list_tasks"]]
    /\ UNCHANGED <<replies, projects, rtasks, rlabels, QUEUES, fin, fout>>

\* the test of line 187 placed behind the labeling
ListTasks_LateCheck(r) ==
    /\ st[r].pc = "list_tasks"
    /\ \E reply \in replies :
        /\ log' = Append(log, Call(r, "list_tasks", NoId, "", <<>>, reply))
        /\ IF reply = "error" THEN Finish(r, ErrorLine(r))
           ELSE LET tasks == IF reply = "json" THEN list_tasks(st[r].pid) ELSE <<>>
                IN IF tasks = <<>>
                   THEN IF cfg(r).promote_label # <<>> /\ ~st[r].cache.set
                        THEN Goto(r, "list_labels")
                        ELSE Finish(r, Result(r, "empty", FALSE))
                   ELSE st' = [st EXCEPT ![r] = [@ EXCEPT !.tasks = tasks,
                                                          !.sorted = tasks_sorted(tasks),
                                                          !.pc = "promote"]]
    /\ UNCHANGED <<replies, projects, rtasks, rlabels, QUEUES, fin, fout>>

\* lines 186-194: the snapshot and the queue order; a reply of None counts
\* as no tasks (the "or []" of line 145)
ListTasks(r) ==
    /\ st[r].pc = "list_tasks"
    /\ \E reply \in replies :
        /\ log' = Append(log, Call(r, "list_tasks", NoId, "", <<>>, reply))
        /\ IF reply = "error" THEN Finish(r, ErrorLine(r))
           ELSE LET tasks == IF reply = "json" THEN list_tasks(st[r].pid) ELSE <<>>
                IN IF tasks = <<>>
                   THEN Finish(r, Result(r, "empty", FALSE))
                   ELSE st' = [st EXCEPT ![r] = [@ EXCEPT !.tasks = tasks,
                                                          !.sorted = tasks_sorted(tasks),
                                                          !.pc = "promote"]]
    /\ UNCHANGED <<replies, projects, rtasks, rlabels, QUEUES, fin, fout>>

\* a test put before line 199: a head that has a due date is not written
PromoteHead_IfNoDue(r) ==
    /\ st[r].pc = "promote"
    /\ IF head(r).due # NoDue
       THEN /\ st' = [st EXCEPT ![r] = [@ EXCEPT !.cleared = 0, !.i = 1, !.pc = "demote"]]
            /\ UNCHANGED <<log, rtasks>>
       ELSE \E reply \in replies :
            /\ log' = Append(log, Call(r, "update_task", head(r).id,
                                       cfg(r).due_string, <<>>, reply))
            /\ IF reply = "error" THEN Finish(r, ErrorLine(r)) /\ UNCHANGED rtasks
               ELSE /\ rtasks' = DueWritten(rtasks, head(r).id, cfg(r).due_string)
                    /\ st' = [st EXCEPT ![r] = [@ EXCEPT !.cleared = 0, !.i = 1,
                                                         !.pc = "demote"]]
    /\ UNCHANGED <<replies, projects, rlabels, QUEUES, fin, fout>>

\* lines 196-202: the due date of the head
PromoteHead(r) ==
    /\ st[r].pc = "promote"
    /\ \E reply \in replies :
        /\ log' = Append(log, Call(r, "update_task", head(r).id,
                                   cfg(r).due_string, <<>>, reply))
        /\ IF reply = "error" THEN Finish(r, ErrorLine(r)) /\ UNCHANGED rtasks
           ELSE /\ rtasks' = DueWritten(rtasks, head(r).id, cfg(r).due_string)
                /\ st' = [st EXCEPT ![r] = [@ EXCEPT !.cleared = 0, !.i = 1,
                                                     !.pc = "demote"]]
    /\ UNCHANGED <<replies, projects, rlabels, QUEUES, fin, fout>>

\* the counter of line 207 moved out of the test of line 205
DemoteSkip_Counted(r) ==
    /\ st[r].pc = "demote"
    /\ cfg(r).clear_due_on_rest
    /\ st[r].i <= Len(rest(r))
    /\ rest(r)[st[r].i].due = NoDue
    /\ st' = [st EXCEPT ![r] = [@ EXCEPT !.cleared = @ + 1, !.i = @ + 1]]
    /\ UNCHANGED <<replies, projects, rtasks, rlabels, QUEUES, log, fin, fout>>

\* lines 203-205: a task of rest that has no due date in the snapshot
DemoteSkip(r) ==
    /\ st[r].pc = "demote"
    /\ cfg(r).clear_due_on_rest
    /\ st[r].i <= Len(rest(r))
    /\ rest(r)[st[r].i].due = NoDue
    /\ st' = [st EXCEPT ![r] = [@ EXCEPT !.i = @ + 1]]
    /\ UNCHANGED <<replies, projects, rtasks, rlabels, QUEUES, log, fin, fout>>

\* a try put around line 206: a failed clear is passed over and the loop goes on
DemoteClear_Continue(r) ==
    /\ st[r].pc = "demote"
    /\ cfg(r).clear_due_on_rest
    /\ st[r].i <= Len(rest(r))
    /\ rest(r)[st[r].i].due # NoDue
    /\ \E reply \in replies :
        /\ log' = Append(log, Call(r, "update_task", rest(r)[st[r].i].id,
                                   ClearDue, <<>>, reply))
        /\ IF reply = "error" THEN st' = [st EXCEPT ![r] = [@ EXCEPT !.i = @ + 1]] /\ UNCHANGED rtasks
           ELSE /\ rtasks' = DueWritten(rtasks, rest(r)[st[r].i].id, ClearDue)
                /\ st' = [st EXCEPT ![r] = [@ EXCEPT !.cleared = @ + 1, !.i = @ + 1]]
    /\ UNCHANGED <<replies, projects, rlabels, QUEUES, fin, fout>>

\* the test of line 203 left out: the loop runs whatever the flag says
DemoteClear_Unasked(r) ==
    /\ st[r].pc = "demote"
    /\ st[r].i <= Len(rest(r))
    /\ rest(r)[st[r].i].due # NoDue
    /\ \E reply \in replies :
        /\ log' = Append(log, Call(r, "update_task", rest(r)[st[r].i].id,
                                   ClearDue, <<>>, reply))
        /\ IF reply = "error" THEN Finish(r, ErrorLine(r)) /\ UNCHANGED rtasks
           ELSE /\ rtasks' = DueWritten(rtasks, rest(r)[st[r].i].id, ClearDue)
                /\ st' = [st EXCEPT ![r] = [@ EXCEPT !.cleared = @ + 1, !.i = @ + 1]]
    /\ UNCHANGED <<replies, projects, rlabels, QUEUES, fin, fout>>

\* lines 205-207: a task of rest that has a due date in the snapshot
DemoteClear(r) ==
    /\ st[r].pc = "demote"
    /\ cfg(r).clear_due_on_rest
    /\ st[r].i <= Len(rest(r))
    /\ rest(r)[st[r].i].due # NoDue
    /\ \E reply \in replies :
        /\ log' = Append(log, Call(r, "update_task", rest(r)[st[r].i].id,
                                   ClearDue, <<>>, reply))
        /\ IF reply = "error" THEN Finish(r, ErrorLine(r)) /\ UNCHANGED rtasks
           ELSE /\ rtasks' = DueWritten(rtasks, rest(r)[st[r].i].id, ClearDue)
                /\ st' = [st EXCEPT ![r] = [@ EXCEPT !.cleared = @ + 1, !.i = @ + 1]]
    /\ UNCHANGED <<replies, projects, rlabels, QUEUES, fin, fout>>

\* lines 203-204 and 210: the loop is over, or was not asked for
DemoteEnd(r) ==
    /\ st[r].pc = "demote"
    /\ ~cfg(r).clear_due_on_rest \/ st[r].i > Len(rest(r))
    /\ Goto(r, "label")
    /\ UNCHANGED <<replies, projects, rtasks, rlabels, QUEUES, log, fin, fout>>

\* lines 210-214 and 153-156: no label asked for, an empty label name
\* (ValueError, caught at line 222), or on to the label cache
LabelStart(r) ==
    /\ st[r].pc = "label"
    /\ IF cfg(r).promote_label = <<>> \/ LStrip(cfg(r).promote_label) = <<>>
       THEN Finish(r, Result(r, "ok", FALSE))
       ELSE Goto(r, IF st[r].cache.set THEN "lookup" ELSE "list_labels")
    /\ UNCHANGED <<replies, projects, rtasks, rlabels, QUEUES, log, fin, fout>>

\* the try of line 213 left out: the failure leaves promote_queue
ListLabels_Uncaught(r) ==
    /\ st[r].pc = "list_labels"
    /\ \E reply \in replies :
        /\ log' = Append(log, Call(r, "list_labels", NoId, "", <<>>, reply))
        /\ IF reply = "error" THEN Finish(r, ErrorLine(r))
           ELSE LET labels == IF reply = "json" THEN rlabels ELSE <<>>
                IN st' = [st EXCEPT ![r] = [@ EXCEPT !.cache = [set |-> TRUE, val |-> labels],
                                                     !.pc = "lookup"]]
    /\ UNCHANGED <<replies, projects, rtasks, rlabels, QUEUES, fin, fout>>

\* lines 166-169: _labels() fills the cache; a reply of None fills it with
\* the empty list (the "or []" of line 168)
ListLabels(r) ==
    /\ st[r].pc = "list_labels"
    /\ \E reply \in replies :
        /\ log' = Append(log, Call(r, "list_labels", NoId, "", <<>>, reply))
        /\ IF reply = "error" THEN Finish(r, Result(r, "ok", FALSE))
           ELSE LET labels == IF reply = "json" THEN rlabels ELSE <<>>
                IN st' = [st EXCEPT ![r] = [@ EXCEPT !.cache = [set |-> TRUE, val |-> labels],
                                                     !.pc = "lookup"]]
    /\ UNCHANGED <<replies, projects, rtasks, rlabels, QUEUES, fin, fout>>

\* lines 157-159: the first label of the cache with the name, case-insensitively
LookupLabel(r) ==
    /\ st[r].pc = "lookup"
    /\ LET label_name == LStrip(cfg(r).promote_label)
           k == FirstIndex([i \in DOMAIN st[r].cache.val |->
                               Lower(st[r].cache.val[i].name) = Lower(label_name)])
       IN IF k # 0
          THEN st' = [st EXCEPT ![r] = [@ EXCEPT !.label_id = st[r].cache.val[k].id,
                                                 !.pc = "label_write"]]
          ELSE Goto(r, "create_label")
    /\ UNCHANGED <<replies, projects, rtasks, rlabels, QUEUES, log, fin, fout>>

\* line 163 left out: the cache outlives the creation
CreateLabel_KeepCache(r) ==
    /\ st[r].pc = "create_label"
    /\ \E reply \in replies :
        /\ log' = Append(log, Call(r, "create_label", NoId, "", <<>>, reply))
        /\ IF reply = "error" THEN Finish(r, Result(r, "ok", FALSE)) /\ UNCHANGED rlabels
           ELSE LET created == created_label(LStrip(cfg(r).promote_label))
                IN /\ rlabels' = Append(rlabels, created)
                   /\ IF reply = "none"
                      THEN Finish(r, Result(r, "ok", FALSE))
                      ELSE st' = [st EXCEPT ![r] = [@ EXCEPT !.label_id = created.id,
                                                           !.pc = "label_write"]]
    /\ UNCHANGED <<replies, projects, rtasks, QUEUES, fin, fout>>

\* lines 160-164: the label is created and the cache dropped; a reply of
\* None has no "id" to read at line 164, after the cache was dropped, and
\* the TypeError is caught at line 222
CreateLabel(r) ==
    /\ st[r].pc = "create_label"
    /\ \E reply \in replies :
        /\ log' = Append(log, Call(r, "create_label", NoId, "", <<>>, reply))
        /\ IF reply = "error" THEN Finish(r, Result(r, "ok", FALSE)) /\ UNCHANGED rlabels
           ELSE LET created == created_label(LStrip(cfg(r).promote_label))
                IN /\ rlabels' = Append(rlabels, created)
                   /\ IF reply = "none"
                      THEN st' = [st EXCEPT ![r] =
                                    [@ EXCEPT !.cache = [set |-> FALSE, val |-> <<>>],
                                              !.out = Append(@, Result(r, "ok", FALSE)),
                                              !.qi = @ + 1,
                                              !.pc = IF st[r].qi + 1 > Len(QUEUES)
                                                     THEN "done" ELSE "start"]]
                      ELSE st' = [st EXCEPT ![r] =
                                    [@ EXCEPT !.cache = [set |-> FALSE, val |-> <<>>],
                                              !.label_id = created.id,
                                              !.pc = "label_write"]]
    /\ UNCHANGED <<replies, projects, rtasks, QUEUES, fin, fout>>

\* line 217 without its second test
NeedsLabel_IdOnly(r) == st[r].label_id \notin Range(head(r).labels)

\* line 217: the head's snapshot carries neither the identifier nor the raw name
NeedsLabel(r) ==
    /\ st[r].label_id \notin Range(head(r).labels)
    /\ cfg(r).promote_label \notin Range(head(r).labels)

\* line 219 without its left operand: the label alone is written
LabelWrite_Replace(r) ==
    /\ st[r].pc = "label_write"
    /\ NeedsLabel(r)
    /\ LET new_labels == <<st[r].label_id>>
       IN \E reply \in replies :
           /\ log' = Append(log, Call(r, "update_task", head(r).id, "", new_labels, reply))
           /\ IF reply = "error" THEN Finish(r, Result(r, "ok", FALSE)) /\ UNCHANGED rtasks
              ELSE /\ rtasks' = LabelsWritten(rtasks, head(r).id, new_labels)
                   /\ Finish(r, Result(r, "ok", TRUE))
    /\ UNCHANGED <<replies, projects, rlabels, QUEUES, fin, fout>>

\* lines 216-221: the label is added to the head's labels
LabelWrite(r) ==
    /\ st[r].pc = "label_write"
    /\ NeedsLabel(r)
    /\ LET new_labels == Append(head(r).labels, st[r].label_id)
       IN \E reply \in replies :
           /\ log' = Append(log, Call(r, "update_task", head(r).id, "", new_labels, reply))
           /\ IF reply = "error" THEN Finish(r, Result(r, "ok", FALSE)) /\ UNCHANGED rtasks
              ELSE /\ rtasks' = LabelsWritten(rtasks, head(r).id, new_labels)
                   /\ Finish(r, Result(r, "ok", TRUE))
    /\ UNCHANGED <<replies, projects, rlabels, QUEUES, fin, fout>>

\* lines 217 and 221: the head carries the label already
LabelKeep(r) ==
    /\ st[r].pc = "label_write"
    /\ ~NeedsLabel(r)
    /\ Finish(r, Result(r, "ok", TRUE))
    /\ UNCHANGED <<replies, projects, rtasks, rlabels, QUEUES, log, fin, fout>>

Step(r) ==
    \/ Resolve(r)
    \/ ListTasks(r)
    \/ PromoteHead(r)
    \/ DemoteSkip(r)
    \/ DemoteClear(r)
    \/ DemoteEnd(r)
    \/ LabelStart(r)
    \/ ListLabels(r)
    \/ LookupLabel(r)
    \/ CreateLabel(r)
    \/ LabelWrite(r)
    \/ LabelKeep(r)

\* one run of main()
Next == Step(1)

----------------------------------------------------------------------------
(* Initial states *)

\* a run of main() at line 239: a new client, whose label cache is None
NewRun ==
    [pc |-> "start", qi |-> 1, pid |-> NoId, tasks |-> <<>>, sorted |-> <<>>,
     i |-> 0, cleared |-> 0, label_id |-> <<>>,
     cache |-> [set |-> FALSE, val |-> <<>>], out |-> <<>>]

\* "Chores" with the child "q " (the queue), the root "B" that holds one
\* task of its own, and the empty root "E"
SampleProjects ==
    << [id |-> 1, name |-> <<"C">>, parent_id |-> NoId],
       [id |-> 2, name |-> <<"q", " ">>, parent_id |-> 1],
       [id |-> 3, name |-> <<"B">>, parent_id |-> NoId],
       [id |-> 4, name |-> <<"E">>, parent_id |-> NoId] >>

QueueProject == SampleProjects[2].id
PathToQueue == <<"c", "/", "Q">>
PathToB == <<"b">>
PathToEmpty == <<"E">>
PathToNothing == <<"c", "/", "x">>

NextLabel == <<"@", "n">>             \* the promote_label of line 42
BlankLabel == <<" ">>                 \* a label name that lstrip() empties
OtherToken == <<"x">>                 \* a label of a task that is not the promote label
KnownLabel == [id |-> <<"7">>, name |-> <<"@", "N">>]

\* the task of project "B"
Bystander ==
    [id |-> 9, project_id |-> 3, content |-> <<"0", "1", " ", "b">>,
     created_at |-> <<"0", "1">>, due |-> "2024-01-01", labels |-> <<OtherToken>>]

\* the creation time of the i-th listed task: later in the listing is older
CreatedAt(i) == <<"1", Digits[10 - i]>>

QueueContents == { <<"0", "2", " ", "a">>, <<"w">> }
QueueDues == {NoDue, "2024-01-01"}

\* the label sets of the one task that carries the promote label: by the
\* identifier of the service's label, or by the raw name
PromotedLabelSets == { <<OtherToken, KnownLabel.id>>, <<NextLabel>> }

\* the tasks of the queue's project: the i-th has content f[i][1] and due
\* f[i][2]; task j, if any (the first or the second of the listing), has the
\* labels l and the others one other label
QueueTasks(f, j, l) ==
    [i \in DOMAIN f |->
        [id |-> i, project_id |-> QueueProject, content |-> f[i][1],
         created_at |-> CreatedAt(i), due |-> f[i][2],
         labels |-> IF i = j THEN l ELSE <<OtherToken>>]]

\* the contents of the queue's tasks in SpecMain: the head is not listed first
MainContent(i) == IF i % 2 = 1 THEN <<"w">> ELSE <<"0", "2", " ", "a">>

Config(name, label, clear) ==
    [project_name |-> name, due_string |-> "today", promote_label |-> label,
     language |-> "en", clear_due_on_rest |-> clear]

NoFunction == [done |-> FALSE, val |-> <<>>]

\* one run of main() over one configured queue
Init ==
    /\ projects = SampleProjects
    /\ replies = Replies
    /\ \E k \in 0..MaxTasks :
       \E f \in [1..k -> QueueContents \X QueueDues] :
       \E j \in (0..k) \cap {0, 1, 2} :
       \E l \in IF j = 0 THEN { <<OtherToken>> } ELSE PromotedLabelSets :
          rtasks = <<Bystander>> \o QueueTasks(f, j, l)
    /\ rlabels \in { <<>>, <<KnownLabel>> }
    /\ \E name \in {PathToQueue, PathToEmpty, PathToNothing},
          label \in {<<>>, NextLabel, BlankLabel},
          clear \in BOOLEAN :
          QUEUES = <<Config(name, label, clear)>>
    /\ st = [r \in {1} |-> NewRun]
    /\ log = <<>>
    /\ fin = <<>>
    /\ fout = NoFunction

Spec == Init /\ [][Next]_vars

\* one run of main() over up to MaxQueues queues that share label and flag:
\* the project holds no task, one, or MaxMainTasks; a queue behind the second
\* is the queue's project again; and the service's labels matter only when a
\* promote_label is configured
InitMain ==
    /\ projects = SampleProjects
    /\ replies = Replies
    /\ \E k \in {0, 1, MaxMainTasks} :
       \E d \in [1..k -> QueueDues] :
          rtasks = <<Bystander>> \o QueueTasks([i \in 1..k |-> <<MainContent(i), d[i]>>], 0, <<>>)
    /\ \E n \in 1..MaxQueues :
       \E names \in {f \in [1..n -> {PathToQueue, PathToB, PathToNothing}] :
                        \A q \in 3..n : f[q] = PathToQueue},
          label \in {<<>>, NextLabel},
          clear \in BOOLEAN :
          /\ rlabels \in (IF label = <<>> THEN { <<>> } ELSE { <<>>, <<KnownLabel>> })
          /\ QUEUES = [q \in 1..n |-> Config(names[q], label, clear)]
    /\ st = [r \in {1} |-> NewRun]
    /\ log = <<>>
    /\ fin = <<>>
    /\ fout = NoFunction

SpecMain == InitMain /\ [][Next]_vars

----------------------------------------------------------------------------
(* Two runs of main() at once: two processes, each with its own client and *)
(* its own snapshot, over the same queue and the same service; a remote    *)
(* call is one step and the steps of the two runs interleave freely        *)

\* the head of the queue, and no other task, may carry the promote label;
\* the service answers with JSON or with an error
InitTwo ==
    /\ projects = SampleProjects
    /\ replies = {"error", "json"}
    /\ \E k \in 1..MaxConcTasks :
       \E d \in [1..k -> QueueDues] :
       \E j \in {0, IF k = 1 THEN 1 ELSE 2} :
          rtasks = <<Bystander>>
                   \o QueueTasks([i \in 1..k |-> <<MainContent(i), d[i]>>], j, <<NextLabel>>)
    /\ rlabels = <<>>
    /\ \E label \in {<<>>, NextLabel}, clear \in BOOLEAN :
          QUEUES = <<Config(PathToQueue, label, clear)>>
    /\ st = [r \in {1, 2} |-> NewRun]
    /\ log = <<>>
    /\ fin = <<>>
    /\ fout = NoFunction

NextTwo == Step(1) \/ Step(2)

SpecTwo == InitTwo /\ [][NextTwo]_vars

----------------------------------------------------------------------------
(* The queue order alone: sorted() applied to a task list *)

OrderContents ==
    { <<"0", "2", " ", "t">>,                               \* "02 t"
      <<"1", "0", " ", "d">>,                               \* "10 d"
      <<" ", "0", "0", "7">>,                               \* " 007"
      <<"w">>,                                              \* "w"
      <<"5", " ", "x">>,                                    \* "5 x"
      <<"1", "0", "a">>,                                    \* "10a"
      <<"1", "0", "0", "0", "0", "0", "0", "0", "0", "0">>, \* "1000000000"
      <<"1", "0", "0", "0", "0", "0", "0", "0", "0", "1", " ", "x">> }
OrderCreateds == { <<"0", "5">>, <<"1", "0">> }

OrderTasks(f) ==
    [i \in DOMAIN f |-> [id |-> i, content |-> f[i][1], created_at |-> f[i][2]]]

InitOrder ==
    /\ \E k \in 1..MaxSortLen :
       \E f \in [1..k -> OrderContents \X OrderCreateds] : fin = OrderTasks(f)
    /\ fout = NoFunction
    /\ replies = {}
    /\ projects = <<>>
    /\ rtasks = <<>>
    /\ rlabels = <<>>
    /\ QUEUES = <<>>
    /\ st = [r \in {1} |-> NewRun]
    /\ log = <<>>

\* line 191
Order ==
    /\ ~fout.done
    /\ fout' = [done |-> TRUE, val |-> tasks_sorted(fin)]
    /\ UNCHANGED <<replies, projects, rtasks, rlabels, QUEUES, st, log, fin>>

SpecOrder == InitOrder /\ [][Order]_vars

----------------------------------------------------------------------------
(* The order key alone: parse_order_key applied to a task *)

\* a space, a carriage return, two digits, a letter of ASCII and one beyond
\* it, a punctuation mark and the underscore
KeyAlphabet == {" ", "\r", "0", "1", "a", "é", "-", "_"}

\* every content of up to MaxContentLen characters of the alphabet
InitKey ==
    /\ \E k \in 0..MaxContentLen :
       \E c \in [1..k -> KeyAlphabet] :
          fin = [id |-> 1, content |-> c, created_at |-> <<"0", "5">>]
    /\ fout = NoFunction
    /\ replies = {}
    /\ projects = <<>>
    /\ rtasks = <<>>
    /\ rlabels = <<>>
    /\ QUEUES = <<>>
    /\ st = [r \in {1} |-> NewRun]
    /\ log = <<>>

\* the key function of line 191 applied to one task
Key ==
    /\ ~fout.done
    /\ fout' = [done |-> TRUE, val |-> parse_order_key(fin)]
    /\ UNCHANGED <<replies, projects, rtasks, rlabels, QUEUES, st, log, fin>>

SpecKey == InitKey /\ [][Key]_vars

----------------------------------------------------------------------------
(* The resolver alone: get_project_id_by_name applied to a listing and a path *)

ResolveNames == { <<"C">>, <<"q", " ">>, <<"É">>, <<"C", "/", "q">> }
ResolvePaths ==
    { <<"c", " ", "/", " ", "Q">>,      \* "c / Q"
      <<"C", "/", "q">>,                \* "C/q"
      <<"c", "/", "q", "/", "é">>,      \* "c/q/é"
      <<"é">> }                         \* "é"

RECURSIVE Ancestor(_, _, _)
\* the n-th ancestor of the project with identifier id, NoId past a root
Ancestor(ps, id, n) ==
    IF n = 0 \/ id = NoId \/ id \notin {ps[i].id : i \in DOMAIN ps} THEN id
    ELSE Ancestor(ps, project_map(ps, id).parent_id, n - 1)

\* a forest: the i-th project has name f[i][1] and the parent f[i][2], which
\* is NoId, the first project of the listing or the project listed just
\* before it
Listing(f) ==
    [i \in DOMAIN f |-> [id |-> i, name |-> f[i][1], parent_id |-> f[i][2]]]

InitResolve ==
    /\ \E k \in 1..MaxProjects :
       \E f \in [1..k -> ResolveNames \X (0..(k - 1))] :
          /\ \A i \in 1..k : f[i][2] < i /\ f[i][2] \in {NoId, 1, i - 1}
          /\ projects = Listing(f)
    /\ fin \in ResolvePaths
    /\ fout = [done |-> FALSE, val |-> NoId]
    /\ replies = {}
    /\ rtasks = <<>>
    /\ rlabels = <<>>
    /\ QUEUES = <<>>
    /\ st = [r \in {1} |-> NewRun]
    /\ log = <<>>

\* line 182
ResolveName ==
    /\ ~fout.done
    /\ fout' = [done |-> TRUE, val |-> get_project_id_by_name(projects, fin)]
    /\ UNCHANGED <<replies, projects, rtasks, rlabels, QUEUES, st, log, fin>>

SpecResolve == InitResolve /\ [][ResolveName]_vars

----------------------------------------------------------------------------
(* Vocabulary of the properties.  The summary's keys are those of          *)
(* promote_queue: status "missing_project" is the design's                 *)
(* project_not_found, promoted_task its promoted_task_title,               *)
(* cleared_due_on its demoted_count and labeled its label_applied.         *)

Run == st[1]

Done == Run.pc = "done"

LogSet == {log[i] : i \in DOMAIN log}

\* the calls of queue q, as indices of the log
CallsOf(q) == {i \in DOMAIN log : log[i].queue = q}

IsDueWrite(e) == e.op = "update_task" /\ e.due_string # ""
IsClearWrite(e) == e.op = "update_task" /\ e.due_string = "no due date"
IsLabelWrite(e) == e.op = "update_task" /\ e.due_string = ""
IsLabelCall(e) == e.op \in {"list_labels", "create_label"} \/ IsLabelWrite(e)

\* the call ended the queue with an error line: _req raised outside the
\* labeling step, or the project listing came back without JSON
Fatal(e) ==
    /\ ~IsLabelCall(e)
    /\ ~e.ok \/ (e.op = "list_projects" /\ e.reply = "none")

\* every label listing that did not fail came back as JSON, so the cache
\* was filled with the service's labels
ListingsRead ==
    \A e \in LogSet : (e.op = "list_labels" /\ e.ok) => e.reply = "json"

\* the tasks of the project as the service holds them now
Remote(pid) == list_tasks(pid)

\* the single queue of Spec ended with the summary status
Returned(status) == Done /\ Len(Run.out) = 1 /\ Run.out[1].status = status

\* the number of tasks of rest that carry a due date in the snapshot
DueInRest(sorted) == Cardinality({i \in 2..Len(sorted) : sorted[i].due # NoDue})

----------------------------------------------------------------------------
(* C1 *)

\* C1: Exactly-one-head.  After promote_queue returned "ok" for a queue with
\* clear_due_on_rest = true, every remote call having succeeded, exactly one
\* task of the project carries a due date: the first task of the queue
\* order, with the configured due expression; every other task has none.
C1_ExactlyOneHead ==
    (Returned("ok") /\ QUEUES[1].clear_due_on_rest /\ \A e \in LogSet : e.ok)
    => LET now == Remote(Run.pid)
           first == tasks_sorted(now)[1]
       IN /\ Run.out[1].head_id = first.id
          /\ first.due = QUEUES[1].due_string
          /\ \A i \in DOMAIN now : now[i].due # NoDue <=> now[i].id = first.id
          /\ Cardinality({i \in DOMAIN now : now[i].due # NoDue}) = 1

\* a queue of three tasks whose head is not listed first and whose rest held
\* two due dates was promoted
C1_Witness ==
    /\ Returned("ok") /\ QUEUES[1].clear_due_on_rest /\ \A e \in LogSet : e.ok
    /\ Len(Run.tasks) = 3
    /\ Run.sorted[1].id # Run.tasks[1].id
    /\ DueInRest(Run.sorted) = 2
    /\ Run.sorted[1].due = NoDue

----------------------------------------------------------------------------
(* C2 *)

\* queue q and the next one are the same configuration and both returned "ok"
TwiceInSuccession(q) ==
    /\ q + 1 \in DOMAIN Run.out
    /\ QUEUES[q] = QUEUES[q + 1]
    /\ Run.out[q].status = "ok"
    /\ Run.out[q + 1].status = "ok"

\* C2 as stated: promote run twice in succession on the same queue, nobody
\* else writing to the service, yields the same head and the same
\* cleared_due_on both times.
C2_Original ==
    \A q \in DOMAIN Run.out :
        TwiceInSuccession(q)
        => /\ Run.out[q + 1].head_id = Run.out[q].head_id
           /\ Run.out[q + 1].promoted_task = Run.out[q].promoted_task
           /\ Run.out[q + 1].cleared_due_on = Run.out[q].cleared_due_on

\* C2 as amended: the same head both times, and the second run clears
\* nothing, because the first run has cleared every due date of rest (or was
\* told not to clear, and then neither does the second).
C2_SameHeadSecondClearsNothing ==
    \A q \in DOMAIN Run.out :
        TwiceInSuccession(q)
        => /\ Run.out[q + 1].head_id = Run.out[q].head_id
           /\ Run.out[q + 1].promoted_task = Run.out[q].promoted_task
           /\ Run.out[q + 1].cleared_due_on =
                 IF QUEUES[q].clear_due_on_rest THEN 0 ELSE Run.out[q].cleared_due_on
           /\ ~QUEUES[q].clear_due_on_rest => Run.out[q].cleared_due_on = 0

\* the queue was promoted twice and the first run cleared a due date
C2_Witness ==
    /\ Done
    /\ TwiceInSuccession(1)
    /\ Run.out[1].cleared_due_on = 1
    /\ Run.out[2].cleared_due_on = 0
    /\ Run.out[1].head_id = 2

----------------------------------------------------------------------------
(* C3 *)

\* the project resolved and its listing, which succeeded, is empty
EmptyQueue ==
    /\ \E e \in LogSet : e.op = "list_tasks" /\ e.ok
    /\ Remote(Run.pid) = <<>>

\* C3: Empty queue.  When the resolved project has no active tasks, the
\* summary's status is "empty" and the only calls issued are the two
\* listings of projects and tasks: no update_task, no create_label and no
\* list_labels.
C3_EmptyQueue ==
    EmptyQueue
    => /\ Returned("empty")
       /\ \A e \in LogSet : e.op \in {"list_projects", "list_tasks"}
       /\ Len(log) = 2

\* the empty project "E" was the queue, with a label to promote configured
C3_Witness ==
    /\ EmptyQueue
    /\ Returned("empty")
    /\ Run.pid = 4
    /\ QUEUES[1].promote_label = NextLabel
    /\ Len(rtasks) > 1

----------------------------------------------------------------------------
(* C4 *)

\* the project listing was read and the configured name resolves to nothing
Unresolvable ==
    /\ \E e \in LogSet : e.op = "list_projects" /\ e.reply = "json"
    /\ \A i \in DOMAIN projects :
          Lower(Strip(projects[i].name)) # Lower(Strip(QUEUES[1].project_name))
    /\ _resolve_hierarchical_project(projects, QUEUES[1].project_name) = NoId

\* C4: Unresolvable queue.  When the configured name or path resolves to no
\* project, the summary's status is "missing_project" (project_not_found)
\* and the project listing is the only call: no list_tasks, no update_task
\* and no label call.
C4_Unresolvable ==
    Unresolvable
    => /\ Returned("missing_project")
       /\ \A e \in LogSet : e.op = "list_projects"
       /\ Len(log) = 1

\* the path "c/x", whose root exists and whose child does not
C4_Witness ==
    /\ Unresolvable
    /\ Returned("missing_project")
    /\ QUEUES[1].project_name = PathToNothing
    /\ QUEUES[1].promote_label = NextLabel
    /\ Len(rtasks) > 1

----------------------------------------------------------------------------
(* C5 *)

\* the labeling step was reached: the queue resolved, was not empty and its
\* due date writes went through
Labeling == Returned("ok")

\* promote_label is set (line 212)
LabelSet == QUEUES[1].promote_label # <<>>

\* the head's snapshot carries the raw name of the configured label
HeadCarriesToken == QUEUES[1].promote_label \in Range(Run.sorted[1].labels)

\* the head's snapshot carries the configured label: its raw name, or the
\* identifier of the service's label of that name
HeadCarriesLabel ==
    \/ HeadCarriesToken
    \/ \E i \in DOMAIN rlabels :
          /\ Lower(rlabels[i].name) = Lower(LStrip(QUEUES[1].promote_label))
          /\ rlabels[i].id \in Range(Run.sorted[1].labels)

\* C5 as stated: when promote_label is set and the head's snapshot carries
\* the label, no update_task with labels is issued and labeled is true.
C5_Original ==
    (Labeling /\ LabelSet /\ HeadCarriesLabel)
    => /\ \A e \in LogSet : ~IsLabelWrite(e)
       /\ Run.out[1].labeled

\* C5 as amended: when promote_label is set and the head's snapshot carries
\* the label, by its raw name or, the label listing having been read, by
\* the identifier of the service's label, no update_task with labels is
\* issued; labeled is true exactly when ensure_label returned an
\* identifier, that is when list_labels did not fail and create_label, if
\* called, answered with the created label, and false otherwise.
C5_NoLabelWrite ==
    (Labeling /\ LabelSet /\ HeadCarriesLabel /\ (HeadCarriesToken \/ ListingsRead))
    => /\ \A e \in LogSet : ~IsLabelWrite(e)
       /\ Run.out[1].labeled <=>
             /\ \A e \in LogSet : e.op = "list_labels" => e.ok
             /\ \A e \in LogSet : e.op = "create_label" => e.reply = "json"

\* the head carries the raw name, the service has no such label yet: it is
\* created, nothing is written to the head, and labeled is true
C5_Witness ==
    /\ Labeling /\ LabelSet /\ HeadCarriesLabel
    /\ Run.sorted[1].labels = <<NextLabel>>
    /\ \E e \in LogSet : e.op = "create_label" /\ e.ok
    /\ Run.out[1].labeled

----------------------------------------------------------------------------
(* C6 *)

\* a call of the labeling step failed or create_label answered without the
\* created label, or the label name is empty
LabelingFailed ==
    \/ \E e \in LogSet : IsLabelCall(e) /\ ~e.ok
    \/ \E e \in LogSet : e.op = "create_label" /\ e.reply = "none"
    \/ LStrip(QUEUES[1].promote_label) = <<>>

\* the labeling step was entered: the head's due date was written and the
\* demote loop is over
LabelingEntered ==
    /\ Run.pc \in {"label", "list_labels", "lookup", "create_label", "label_write", "done"}
    /\ \E e \in LogSet : IsDueWrite(e) /\ ~IsClearWrite(e) /\ e.ok
    /\ \A e \in LogSet : ~IsLabelCall(e) => e.ok

\* C6: Best-effort labeling.  If a call of the labeling step failed or the
\* label name is empty, the queue still ends with status "ok", with the
\* promoted task and the cleared_due_on that the snapshot determines, and
\* with labeled = false; the due dates written before are kept.
C6_BestEffortLabeling ==
    (Done /\ LabelingEntered /\ LabelingFailed)
    => LET snapshot == tasks_sorted(Run.tasks)
           now == Remote(Run.pid)
       IN /\ Len(Run.out) = 1
          /\ Run.out[1].status = "ok"
          /\ Run.out[1].promoted_task = snapshot[1].content
          /\ Run.out[1].head_id = snapshot[1].id
          /\ Run.out[1].cleared_due_on =
                IF QUEUES[1].clear_due_on_rest THEN DueInRest(snapshot) ELSE 0
          /\ ~Run.out[1].labeled
          /\ \A i \in DOMAIN now :
                /\ now[i].id = snapshot[1].id => now[i].due = QUEUES[1].due_string
                /\ (now[i].id # snapshot[1].id /\ QUEUES[1].clear_due_on_rest)
                      => now[i].due = NoDue

\* the label had to be created, the creation failed, and the queue is
\* reported ok with a due date cleared
C6_Witness ==
    /\ Done /\ LabelingEntered
    /\ \E e \in LogSet : e.op = "create_label" /\ ~e.ok
    /\ Run.out[1].status = "ok"
    /\ Run.out[1].cleared_due_on = 2
    /\ ~Run.out[1].labeled

----------------------------------------------------------------------------
(* C7 *)

\* a call outside the labeling step ended queue q
QueueFailed(q) == \E i \in CallsOf(q) : Fatal(log[i])

\* C7: Queue isolation.  The queues are processed one after another in
\* configuration order; every queue before the current one has been
\* attempted (its project listing issued) and has exactly one line of
\* output, an error line exactly when one of its calls failed; the loop ends
\* only behind the last queue, whatever the earlier queues ended with, and
\* until then the run has a next step.
C7_QueueIsolation ==
    /\ ~Done => ENABLED Next
    /\ Len(Run.out) = Run.qi - 1
    /\ Run.qi <= Len(QUEUES) + 1
    /\ Done <=> Run.qi = Len(QUEUES) + 1
    /\ \A i \in 1..(Len(log) - 1) : log[i].queue <= log[i + 1].queue
    /\ \A i \in DOMAIN log : log[i].queue \in 1..Len(QUEUES)
    /\ \A q \in DOMAIN Run.out :
          LET calls == CallsOf(q)
              fatal == {i \in calls : Fatal(log[i])}
          IN /\ Run.out[q].project = QUEUES[q].project_name
             /\ calls # {}
             /\ \A i \in calls :
                   (\A j \in calls : i <= j) => log[i].op = "list_projects"
             /\ Run.out[q].status = "error" <=> fatal # {}
             /\ fatal # {} => Cardinality({i \in calls : ~log[i].ok}) <= 1
             /\ fatal # {} => Cardinality(fatal) = 1

\* the first queue failed at a remote call and the second was promoted
C7_Witness ==
    /\ Done
    /\ Len(QUEUES) = 2
    /\ Run.out[1].status = "error"
    /\ \E i \in CallsOf(1) : log[i].op = "update_task" /\ ~log[i].ok
    /\ Run.out[2].status = "ok"

----------------------------------------------------------------------------
(* C8 *)

\* the task's content has a numeric prefix: two digits or more, a boundary
HasPrefix(t) == PrefixMatch(t.content) # <<>>

\* C8: Unprefixed-last.  In the queue order no task without a numeric prefix
\* stands before a task with one, whatever the prefix's value and whatever
\* the creation times; so an unprefixed head means no task has a prefix.
C8_UnprefixedLast ==
    fout.done
    => /\ \A i, j \in DOMAIN fout.val :
             (HasPrefix(fout.val[i]) /\ ~HasPrefix(fout.val[j])) => i < j
       /\ ~HasPrefix(fout.val[1]) => \A i \in DOMAIN fin : ~HasPrefix(fin[i])

----------------------------------------------------------------------------
(* C9 *)

\* the creation time as a number: timestamps are zero-padded digits
Time(t) == IntOf(t.created_at)

\* the numeric prefix of the order key, the sentinel for a task without one
Prefix(t) == IF HasPrefix(t) THEN IntOf(PrefixMatch(t.content)) ELSE BigPrefix

\* a comes before b by (numeric_prefix, creation_timestamp)
Before(a, b) ==
    \/ Prefix(a) < Prefix(b)
    \/ Prefix(a) = Prefix(b) /\ Time(a) < Time(b)

SameKey(a, b) == Prefix(a) = Prefix(b) /\ Time(a) = Time(b)

\* C9: Head selection.  The queue order is the listing rearranged, ascending
\* by (numeric_prefix, creation_timestamp): a smaller prefix first, among
\* equal or absent prefixes the earlier creation time first, and tasks with
\* identical keys in the order of the listing.  The head is a task with the
\* smallest pair.
C9_HeadSelection ==
    fout.done
    => LET s == fout.val
       IN /\ Len(s) = Len(fin)
          /\ \A i \in DOMAIN fin : \E j \in DOMAIN s : s[j] = fin[i]
          /\ \A i, j \in DOMAIN s : i < j =>
                \/ Before(s[i], s[j])
                \/ SameKey(s[i], s[j]) /\ s[i].id < s[j].id
          /\ \A i \in DOMAIN fin : ~Before(fin[i], s[1])

\* three tasks, the head listed last; two of them have identical keys and
\* two the same prefix and different creation times
C9_Witness ==
    /\ fout.done
    /\ Len(fin) = 3
    /\ fout.val[1].id = 3
    /\ SameKey(fout.val[2], fout.val[3])
    /\ fout.val[2].content # fout.val[3].content
    /\ Prefix(fout.val[1]) = Prefix(fout.val[2])
    /\ Time(fout.val[1]) < Time(fout.val[2])

----------------------------------------------------------------------------
(* C10 *)

Ids(ps) == {ps[i].id : i \in DOMAIN ps}

\* the project of the listing with the identifier
ProjectOf(ps, id) == ps[CHOOSE i \in DOMAIN ps : ps[i].id = id]

\* the path has a '/' and no project's name is the whole path
Hierarchical(ps, path) ==
    /\ "/" \in Range(path)
    /\ \A i \in DOMAIN ps : Lower(Strip(ps[i].name)) # Lower(Strip(path))

\* the trimmed segments of the path
Segments(path) == LET raw == Split(path, "/") IN [i \in DOMAIN raw |-> Strip(raw[i])]

\* the project's name is the segment, case-insensitively
Named(p, seg) == Lower(Strip(p.name)) = Lower(seg)

\* the project with the identifier is at level k: k - 1 steps up the chain
\* of parents is a project that has no parent
AtLevel(ps, id, k) ==
    LET top == Ancestor(ps, id, k - 1)
    IN top \in Ids(ps) /\ ProjectOf(ps, top).parent_id = NoId

\* C10: Hierarchical resolution is sound and reports absence.  For a path
\* with '/' and no whole-name match: a returned identifier is a project
\* whose chain of parents ends in a parentless root, the names from the root
\* down being the path's trimmed segments, case-insensitively; and when some
\* segment has no project of its name at its level, the result is not found.
C10_ResolutionSound ==
    (fout.done /\ Hierarchical(projects, fin))
    => LET segs == Segments(fin)
           n == Len(segs)
       IN /\ fout.val # NoId =>
                /\ fout.val \in Ids(projects)
                /\ AtLevel(projects, fout.val, n)
                /\ \A k \in 1..n :
                      LET a == Ancestor(projects, fout.val, n - k)
                      IN a \in Ids(projects) /\ Named(ProjectOf(projects, a), segs[k])
          /\ (\E k \in 1..n : \A i \in DOMAIN projects :
                 ~(AtLevel(projects, projects[i].id, k) /\ Named(projects[i], segs[k])))
             => fout.val = NoId

\* "c/q/é" resolved to a grandchild, past a first root candidate whose
\* walk fails
C10_Witness ==
    /\ fout.done /\ Hierarchical(projects, fin)
    /\ Len(Segments(fin)) = 3
    /\ fout.val # NoId
    /\ Len(root_candidates(projects, Segments(fin))) = 2
    /\ Ancestor(projects, fout.val, 2) = root_candidates(projects, Segments(fin))[2]

----------------------------------------------------------------------------
(* C11 *)

\* the places of the listing whose project bears the whole trimmed path as
\* its name, case-insensitively (the name trimmed as the resolver trims it)
WholeNameMatches(ps, path) ==
    {i \in DOMAIN ps : Lower(Strip(ps[i].name)) = Lower(Strip(path))}

\* the smallest member of a non-empty set of places
FirstOf(places) == CHOOSE i \in places : \A j \in places : i <= j

\* C11: Exact match has precedence.  If some project of the listing, root or
\* nested, has the whole trimmed path as its name, case-insensitively, the
\* result is the identifier of the first such project of the listing, also
\* when the path has a '/' and its walk ends at another project; a path
\* without '/' that no project bears as its name resolves to not found.
C11_ExactMatchFirst ==
    fout.done
    => LET hits == WholeNameMatches(projects, fin)
       IN /\ hits # {} => fout.val = projects[FirstOf(hits)].id
          /\ (hits = {} /\ "/" \notin Range(fin)) => fout.val = NoId

\* the path "C/q" is the name of two projects, the first of them nested, and
\* also leads by its walk to a third project, which is not the result
C11_Witness ==
    /\ fout.done
    /\ Cardinality(WholeNameMatches(projects, fin)) = 2
    /\ "/" \in Range(fin)
    /\ projects[FirstOf(WholeNameMatches(projects, fin))].parent_id # NoId
    /\ _resolve_hierarchical_project(projects, fin) # NoId
    /\ _resolve_hierarchical_project(projects, fin) # fout.val

----------------------------------------------------------------------------
(* C12 *)

\* the places of rest in the queue order of the snapshot
RestPlaces == 2..Len(Run.sorted)

\* the update_task calls sent for the task, as indices of the log
UpdatesOf(id) == {i \in DOMAIN log : log[i].op = "update_task" /\ log[i].task = id}

\* the clear-due calls issued so far, as indices of the log
ClearCalls == {i \in DOMAIN log : IsClearWrite(log[i])}

\* C12: Frame of the demote step.  A task of rest without a due date in the
\* snapshot is sent no update_task; with clear_due_on_rest false no task of
\* rest is sent any; every update_task sent to a task of rest is a clear-due
\* write, one per task; and the cleared_due_on of an "ok" summary is the
\* number of clear-due calls issued, which with clear_due_on_rest true is the
\* number of tasks of rest that carry a due date in the snapshot.
C12_DemoteFrame ==
    /\ \A i \in RestPlaces :
          /\ Run.sorted[i].due = NoDue => UpdatesOf(Run.sorted[i].id) = {}
          /\ ~QUEUES[1].clear_due_on_rest => UpdatesOf(Run.sorted[i].id) = {}
          /\ \A c \in UpdatesOf(Run.sorted[i].id) : IsClearWrite(log[c])
          /\ Cardinality(UpdatesOf(Run.sorted[i].id)) <= 1
    /\ \A c \in ClearCalls : \E i \in RestPlaces : log[c].task = Run.sorted[i].id
    /\ Returned("ok") =>
          /\ Run.out[1].cleared_due_on = Cardinality(ClearCalls)
          /\ QUEUES[1].clear_due_on_rest
                => Run.out[1].cleared_due_on = DueInRest(Run.sorted)

\* the design's scenario with one more due date: of the two tasks of rest
\* one had no due date and was left alone, the other was cleared
C12_Witness ==
    /\ Returned("ok")
    /\ QUEUES[1].clear_due_on_rest
    /\ Len(Run.sorted) = 3
    /\ Run.sorted[1].due # NoDue
    /\ Run.sorted[2].due = NoDue
    /\ Run.sorted[3].due # NoDue
    /\ Run.out[1].cleared_due_on = 1
    /\ UpdatesOf(Run.sorted[2].id) = {}
    /\ Cardinality(UpdatesOf(Run.sorted[3].id)) = 1

----------------------------------------------------------------------------
(* C13 *)

\* the calls that failed while resolving, listing, promoting or demoting
FatalCalls == {i \in DOMAIN log : Fatal(log[i])}

\* the successful due date writes sent for the task, as indices of the log
DueWritesDone(id) ==
    {i \in DOMAIN log : IsDueWrite(log[i]) /\ log[i].ok /\ log[i].task = id}

\* the largest member of a non-empty set of indices
LastOf(places) == CHOOSE i \in places : \A j \in places : j <= i

\* the due date a successful write leaves on its task
DueLeftBy(e) == IF IsClearWrite(e) THEN NoDue ELSE e.due_string

\* C13: Abandon on failure, no retry.  After a call that failed while
\* resolving, listing, promoting or demoting, no further call is issued for
\* that queue, so the failed call is not issued again; the queue has exactly
\* one line of output, an error line; and what was written before stays
\* written: every task holds the due date of the last successful write sent
\* for it, and a label created stays in the service's listing.
C13_AbandonNoRetry ==
    /\ \A i \in FatalCalls :
          LET q == log[i].queue
          IN /\ \A j \in DOMAIN log : j > i => log[j].queue # q
             /\ \A j \in CallsOf(q) : j # i => log[j].ok \/ IsLabelCall(log[j])
             /\ q \in DOMAIN Run.out
             /\ Run.out[q].status = "error"
             /\ Run.out[q].project = QUEUES[q].project_name
             /\ Len(Run.out) >= q
    /\ Len(Run.out) <= Len(QUEUES)
    /\ \A t \in DOMAIN rtasks :
          LET done == DueWritesDone(rtasks[t].id)
          IN done # {} => rtasks[t].due = DueLeftBy(log[LastOf(done)])
    /\ Cardinality({i \in DOMAIN log : log[i].op = "create_label" /\ log[i].ok})
          <= Len(rlabels)

\* the first queue promoted its head and failed at the clear-due write of
\* the other task; the head keeps the new due date, the other task its old
\* one, and the second queue, an unresolvable one, was still attempted
C13_Witness ==
    /\ Done
    /\ Len(QUEUES) = 2
    /\ QUEUES[1].project_name = PathToQueue
    /\ QUEUES[2].project_name = PathToNothing
    /\ \E i \in FatalCalls : log[i].queue = 1 /\ IsClearWrite(log[i])
    /\ Cardinality(CallsOf(1)) = 4
    /\ Run.out[1].status = "error"
    /\ Run.out[2].status = "missing_project"
    /\ \E t \in DOMAIN rtasks : rtasks[t].id = Run.sorted[1].id /\ rtasks[t].due = "today"
    /\ \E t \in DOMAIN rtasks : rtasks[t].id = Run.sorted[2].id /\ rtasks[t].due = "2024-01-01"

----------------------------------------------------------------------------
(* C14 *)

\* the calls that change the service's state, as indices of the log
MutationCalls == {i \in DOMAIN log : log[i].op \in {"update_task", "create_label"}}

\* the due date writes sent for the head of the snapshot's queue order
HeadDueWrites ==
    {i \in DOMAIN log : /\ IsDueWrite(log[i]) /\ ~IsClearWrite(log[i])
                        /\ log[i].task = Run.sorted[1].id}

LabelWrites == {i \in DOMAIN log : IsLabelWrite(log[i])}

\* the place of the task in the queue order of the snapshot
PlaceOf(id) == CHOOSE i \in DOMAIN Run.sorted : Run.sorted[i].id = id

\* the snapshot is there and the promoting step is over
Promoted == Run.sorted # <<>> /\ Run.pc # "promote"

\* C14: Mutation order within one queue.  For a queue that is not empty the
\* first mutation call is the due date write of the head, with the
\* configured due expression, issued exactly once whatever due date the head
\* had; the clear-due writes come after it and in queue order; the label
\* write, at most one and for the head, comes after every clear-due write.
\* So in every state in which a task of rest has lost its due date, the head
\* holds the configured one.
C14_MutationOrder ==
    /\ Run.sorted = <<>> => MutationCalls = {}
    /\ Run.sorted # <<>> =>
          /\ Cardinality(HeadDueWrites) = IF Promoted THEN 1 ELSE 0
          /\ \A i \in HeadDueWrites :
                /\ log[i].due_string = QUEUES[1].due_string
                /\ \A m \in MutationCalls : i <= m
          /\ MutationCalls # {} => HeadDueWrites # {}
          /\ \A c, d \in ClearCalls :
                c < d => PlaceOf(log[c].task) < PlaceOf(log[d].task)
          /\ Cardinality(LabelWrites) <= 1
          /\ \A l \in LabelWrites :
                /\ log[l].task = Run.sorted[1].id
                /\ \A c \in ClearCalls : c < l
                /\ \A m \in MutationCalls : m <= l
          /\ \A t \in DOMAIN rtasks :
                \A i \in RestPlaces :
                   ( /\ rtasks[t].id = Run.sorted[i].id
                     /\ Run.sorted[i].due # NoDue
                     /\ rtasks[t].due = NoDue )
                   => \E h \in DOMAIN rtasks :
                         /\ rtasks[h].id = Run.sorted[1].id
                         /\ rtasks[h].due = QUEUES[1].due_string

\* a head that had a due date already was written all the same, then the
\* two tasks of rest were cleared in queue order, then the label was
\* created and written to the head
C14_Witness ==
    /\ Returned("ok")
    /\ Len(Run.sorted) = 3
    /\ Run.sorted[1].due = "2024-01-01"
    /\ Run.sorted[2].id = Run.tasks[3].id
    /\ Cardinality(HeadDueWrites) = 1
    /\ Cardinality(ClearCalls) = 2
    /\ \E i \in DOMAIN log : log[i].op = "create_label"
    /\ Cardinality(LabelWrites) = 1
    /\ \A e \in LogSet : e.ok

----------------------------------------------------------------------------
(* C15 *)

ListCalls == {i \in DOMAIN log : log[i].op = "list_labels"}

CreateCalls == {i \in DOMAIN log : log[i].op = "create_label"}

\* the labels of the service that bear the name, case-insensitively
LabelsNamed(name) ==
    {i \in DOMAIN rlabels : Lower(rlabels[i].name) = Lower(LStrip(name))}

\* every queue has the same promote_label, and the service had no label of
\* that name at the start: the ones it has now were all created by this run
SharedMissingLabel ==
    /\ \A q \in DOMAIN QUEUES : QUEUES[q].promote_label = QUEUES[1].promote_label
    /\ QUEUES[1].promote_label # <<>>
    /\ Cardinality(LabelsNamed(QUEUES[1].promote_label))
          = Cardinality({i \in CreateCalls : log[i].ok})

\* C15 as stated: over a run of several queues that share a promote_label
\* the service did not have, create_label is called at most once.
C15_Original ==
    SharedMissingLabel => Cardinality(CreateCalls) <= 1

\* C15 as amended: list_labels is issued only while the cache is empty, that
\* is before the first listing that succeeded or after a creation that
\* succeeded; a successful creation empties the cache, so a filled cache is
\* the service's listing and holds every created label, given that the
\* listings came back as JSON; and then, for a shared promote_label the
\* service did not have, no create_label follows a create_label that
\* succeeded: at most one creation succeeds, and create_label is called
\* again only after a creation that failed.
C15_LabelCache ==
    LET lists == ListCalls
        creates == CreateCalls
    IN /\ Run.pc = "list_labels" => ~Run.cache.set
       /\ \A j \in lists : \A i \in lists :
             (i < j /\ log[i].ok) => \E c \in creates : i < c /\ c < j /\ log[c].ok
       /\ (Run.cache.set /\ ListingsRead) => Run.cache.val = rlabels
       /\ (\E c \in creates :
              log[c].ok /\ \A l \in lists : l > c => ~log[l].ok) => ~Run.cache.set
       /\ (SharedMissingLabel /\ ListingsRead) =>
             /\ \A c, d \in creates : c < d => ~log[c].ok
             /\ Cardinality({c \in creates : log[c].ok}) <= 1
             /\ (\A e \in LogSet : e.ok) => Cardinality(creates) <= 1

\* two queues shared the missing label: the first created it, the second
\* listed the labels again, found it and created nothing
C15_Witness ==
    /\ Done
    /\ Len(QUEUES) = 2
    /\ SharedMissingLabel
    /\ \A e \in LogSet : e.ok
    /\ Cardinality(CreateCalls) = 1
    /\ Cardinality(ListCalls) = 2
    /\ \E c \in CreateCalls : log[c].queue = 1
    /\ \E l \in ListCalls : log[l].queue = 2
    /\ Run.out[2].labeled
    /\ Run.cache.set

----------------------------------------------------------------------------
(* C16 *)

\* the identifier the service has for the configured label
ConfiguredLabelId ==
    rlabels[FirstOf(LabelsNamed(QUEUES[1].promote_label))].id

\* C16: Label write preserves labels.  A label write goes to the head only
\* and only when the head's snapshot does not carry the configured label
\* (its raw name, or the identifier the client holds for it); its label set
\* is the snapshot's, in order, with the identifier of a label of the
\* configured name added at the end, and nothing else.  When the labeling went
\* through for such a head there is exactly one label write, and afterwards
\* the head holds that set while every other task of the project holds the
\* labels of its snapshot.
C16_LabelsPreserved ==
    /\ \A l \in LabelWrites :
          /\ log[l].task = Run.sorted[1].id
          /\ ~HeadCarriesToken
          /\ ListingsRead => ~HeadCarriesLabel
          /\ \E n \in LabelsNamed(QUEUES[1].promote_label) :
                /\ rlabels[n].id \notin Range(Run.sorted[1].labels)
                /\ log[l].labels = Run.sorted[1].labels \o <<rlabels[n].id>>
          /\ ListingsRead =>
                log[l].labels = Run.sorted[1].labels \o <<ConfiguredLabelId>>
          /\ \A x \in Range(Run.sorted[1].labels) : x \in Range(log[l].labels)
    /\ (Returned("ok") /\ Run.out[1].labeled /\ ~HeadCarriesLabel)
          => Cardinality(LabelWrites) = 1 /\ \A l \in LabelWrites : log[l].ok
    /\ Run.sorted # <<>> =>
          \A t \in DOMAIN rtasks : \A i \in DOMAIN Run.sorted :
             rtasks[t].id = Run.sorted[i].id
             => rtasks[t].labels =
                   IF i = 1 /\ \E l \in LabelWrites : log[l].ok
                   THEN log[CHOOSE l \in LabelWrites : log[l].ok].labels
                   ELSE Run.sorted[i].labels
    /\ \A t \in DOMAIN rtasks : rtasks[t].id = Bystander.id => rtasks[t] = Bystander

\* the head carried two labels, neither of them the configured one, which
\* the service did not have: it was created and written behind the two
C16_Witness ==
    /\ Returned("ok")
    /\ Run.out[1].labeled
    /\ Run.sorted[1].labels = <<OtherToken, KnownLabel.id>>
    /\ Len(Run.sorted) = 3
    /\ \E c \in CreateCalls : log[c].ok
    /\ \E l \in LabelWrites : log[l].ok /\ Len(log[l].labels) = 3
    /\ \E t \in DOMAIN rtasks :
          /\ rtasks[t].id = Run.sorted[1].id
          /\ rtasks[t].labels = <<OtherToken, KnownLabel.id, ConfiguredLabelId>>

----------------------------------------------------------------------------
(* C17 *)

\* the places of the listing whose project has the parent and the name
ChildPlaces(ps, parent, seg) ==
    {i \in DOMAIN ps : ps[i].parent_id = parent /\ Named(ps[i], seg)}

\* the reference walk from a root: w[k] is the project reached at segment
\* k, the first child in listing order that has the segment's name, and NoId
\* from the first segment on that no child has
RefWalk(ps, root, segs) ==
    LET w[k \in 1..Len(segs)] ==
            IF k = 1 THEN root
            ELSE IF w[k - 1] = NoId \/ ChildPlaces(ps, w[k - 1], segs[k]) = {} THEN NoId
            ELSE ps[FirstOf(ChildPlaces(ps, w[k - 1], segs[k]))].id
    IN w

\* the reference procedure: the root candidates in listing order, and the
\* end of the first walk that completes
RefResolve(ps, path) ==
    LET segs == Segments(path)
        ends == [i \in ChildPlaces(ps, NoId, segs[1]) |->
                    RefWalk(ps, ps[i].id, segs)[Len(segs)]]
        complete == {i \in DOMAIN ends : ends[i] # NoId}
    IN IF complete = {} THEN NoId ELSE ends[FirstOf(complete)]

\* some chain of projects, root first, bears the segments of the path
ChainExists(ps, path) ==
    LET segs == Segments(path)
        n == Len(segs)
    IN \E i \in DOMAIN ps :
          /\ AtLevel(ps, ps[i].id, n)
          /\ \A k \in 1..n :
                LET a == Ancestor(ps, ps[i].id, n - k)
                IN a \in Ids(ps) /\ Named(ProjectOf(ps, a), segs[k])

\* C17: Deterministic first-match walk.  For a hierarchical path the result
\* is that of the reference procedure: root candidates in listing order,
\* under each the first child in listing order with the next segment's name
\* at every level, the end of the first walk that completes.  A root whose
\* walk fails does not stop a later root; and there is no backtracking: when
\* under every root candidate the first matching child at some level has no
\* child with the next segment's name, the result is not found, whatever the
\* subtrees of its same-named siblings hold.
C17_FirstMatchWalk ==
    (fout.done /\ Hierarchical(projects, fin))
    => LET segs == Segments(fin)
           roots == ChildPlaces(projects, NoId, segs[1])
       IN /\ fout.val = RefResolve(projects, fin)
          /\ \A i \in roots :
                ( /\ RefWalk(projects, projects[i].id, segs)[Len(segs)] # NoId
                  /\ \A j \in roots :
                        j < i => RefWalk(projects, projects[j].id, segs)[Len(segs)] = NoId )
                => fout.val = RefWalk(projects, projects[i].id, segs)[Len(segs)]
          /\ (\A i \in roots :
                 \E k \in 2..Len(segs) :
                    LET first == ChildPlaces(projects, RefWalk(projects, projects[i].id, segs)[k - 1],
                                             segs[k])
                    IN \/ first = {}
                       \/ /\ k < Len(segs)
                          /\ ChildPlaces(projects, projects[FirstOf(first)].id, segs[k + 1]) = {})
             => fout.val = NoId

\* "c/q/é" with two children "q" under the one root "C": the first has no
\* child "É", the second has one, and the result is not found
C17_Witness ==
    /\ fout.done /\ Hierarchical(projects, fin)
    /\ Len(Segments(fin)) = 3
    /\ Cardinality(ChildPlaces(projects, NoId, Segments(fin)[1])) = 1
    /\ ChainExists(projects, fin)
    /\ fout.val = NoId

----------------------------------------------------------------------------
(* C18 *)

\* the content is w whitespace characters, then n digits, then anything
Leads(content, w, n) ==
    /\ w + n <= Len(content)
    /\ \A i \in 1..w : IsSpace(content[i])
    /\ \A i \in (w + 1)..(w + n) : IsDigit(content[i])

\* the digit run that Leads describes is the whole run: the content ends
\* behind it or goes on with something that is not a digit
WholeRun(content, w, n) ==
    Leads(content, w, n) /\ (w + n = Len(content) \/ ~IsDigit(content[w + n + 1]))

\* the run ends at a word boundary: the content ends behind it or goes on
\* with a character that is neither a letter, a numeric character nor the
\* underscore
AtBoundary(content, w, n) ==
    Leads(content, w, n) /\ (w + n = Len(content) \/ ~IsWord(content[w + n + 1]))

Spans(content) == (0..Len(content)) \X (2..MaxContentLen + 1)

\* C18 as stated: the prefix of the key is the value of the leading digit
\* run exactly when the content begins, after optional whitespace, with two
\* digits or more (the run ending where the digits end); every other
\* content, that is one with no leading digit or a single one, gets the
\* sentinel.
C18_Original ==
    fout.done
    => /\ \A s \in Spans(fin.content) :
             WholeRun(fin.content, s[1], s[2])
             => fout.val.prefix = IntOf(SubSeq(fin.content, s[1] + 1, s[1] + s[2]))
       /\ (\A s \in Spans(fin.content) : ~WholeRun(fin.content, s[1], s[2]))
             => fout.val.prefix = BigPrefix

\* C18 as amended: the prefix of the key is the value of the leading digit
\* run exactly when the content begins, after optional whitespace, with two
\* digits or more that end at a word boundary: at the end of the content or
\* before a character that is neither a letter (of any script), a numeric
\* character nor the underscore.  Every other content gets the sentinel: no
\* leading digit, a single one, or a run directly followed by a letter or an
\* underscore.  The second
\* component of the key is the creation time.
C18_PrefixRecognition ==
    fout.done
    => /\ \A s \in Spans(fin.content) :
             (WholeRun(fin.content, s[1], s[2]) /\ AtBoundary(fin.content, s[1], s[2]))
             => fout.val.prefix = IntOf(SubSeq(fin.content, s[1] + 1, s[1] + s[2]))
       /\ (\A s \in Spans(fin.content) :
              ~(WholeRun(fin.content, s[1], s[2]) /\ AtBoundary(fin.content, s[1], s[2])))
             => fout.val.prefix = BigPrefix
       /\ fout.val.created = fin.created_at

\* " 01": whitespace, two digits with a leading zero, the end of the content
C18_Witness ==
    /\ fout.done
    /\ fin.content = <<" ", "0", "1">>
    /\ WholeRun(fin.content, 1, 2) /\ AtBoundary(fin.content, 1, 2)
    /\ fout.val.prefix = 1

----------------------------------------------------------------------------
(* C19 *)

\* both runs have finished and each promoted the queue
BothPromoted ==
    /\ DOMAIN st = {1, 2}
    /\ \A r \in {1, 2} :
          /\ st[r].pc = "done"
          /\ Len(st[r].out) = 1
          /\ st[r].out[1].status = "ok"

\* the tasks of the project that carry a due date now
WithDue(pid) == {i \in DOMAIN Remote(pid) : Remote(pid)[i].due # NoDue}

\* C19: Concurrent runs.  When two runs were interleaved in any way on the
\* same queue with clear_due_on_rest true and every remote call succeeded,
\* then once both have finished exactly one task of the project carries a
\* due date, the configured one, and it is the head of the queue order;
\* both runs report the same promoted task.
C19_ConcurrentRuns ==
    (BothPromoted /\ QUEUES[1].clear_due_on_rest /\ \A e \in LogSet : e.ok)
    => LET now == Remote(st[1].pid)
           first == tasks_sorted(now)[1]
       IN /\ st[1].pid = st[2].pid
          /\ Cardinality(WithDue(st[1].pid)) = 1
          /\ \A i \in WithDue(st[1].pid) : now[i].id = first.id
          /\ first.due = QUEUES[1].due_string
          /\ st[1].out[1].head_id = first.id
          /\ st[2].out[1].head_id = first.id
          /\ st[1].out[1].promoted_task = st[2].out[1].promoted_task

\* run 2 took its snapshot after run 1 had promoted the head and before run
\* 1 cleared the other task, so the snapshots differ and both runs cleared
\* the same task
C19_Witness ==
    /\ BothPromoted /\ QUEUES[1].clear_due_on_rest /\ \A e \in LogSet : e.ok
    /\ st[1].tasks # st[2].tasks
    /\ st[1].sorted[1].due = NoDue
    /\ st[2].sorted[1].due = "today"
    /\ st[1].out[1].cleared_due_on = 1
    /\ st[2].out[1].cleared_due_on = 1
    /\ \E i, j, k \in DOMAIN log :
          i < j /\ j < k /\ log[i].run = 1 /\ log[j].run = 2 /\ log[k].run = 1

====
